---- MODULE Spec2Model ----
(***************************************************************************)
(* Transposition table of Ethereal (src/src/transposition.c) with the      *)
(* anti-collision verification store, modelled as a state machine.         *)
(*                                                                         *)
(* 64-bit quantities are kept in pieces that fit the checker's integers:   *)
(* a position hash is a record of its top 16 bits (hi16) and its low 48    *)
(* bits (lo); a 64-bit board word is a little-endian sequence of 8 bytes.  *)
(***************************************************************************)
EXTENDS Integers, Sequences, FiniteSets, TLC

VARIABLES hashMask, generation, buckets, verificationHashes,
          passedLookups, verificationFailures, stored, last,
          val, mt, written, pktable

vars == <<hashMask, generation, buckets, verificationHashes,
          passedLookups, verificationFailures, stored, last, val, mt,
          written, pktable>>

(***************************************************************************)
(* Bounds of the model                                                     *)
(***************************************************************************)
\* hashes 1..NumHashes are probed and stored where verification is examined
NumHashes == 2
\* hashes 1..NumReplHashes are stored where replacement is examined
NumReplHashes == 4
\* boards 1..NumBoards are probed and stored
NumBoards == 2
\* search results (move, value, eval, depth) 1..NumResults are stored
NumResults == 2
\* updateTT runs from GenWindow generations before the 8-bit wraparound
\* up to GenWindow generations after it
GenWindow == 1
\* getTTEntry calls that reach the verification are counted up to this cap
MaxLookups == 1
\* requested table sizes 2..MaxMB megabytes
MaxMB == 130
\* scores within Margin of the TBWIN_IN_MAX threshold, and of zero
Margin == 40
\* consecutive updateTT calls are counted up to this cap
MaxUpdates == 65
\* operations started by the concurrent workers
MaxOps == 3
\* pawn/king hashes 1..NumPKHashes are probed and stored
NumPKHashes == 4
\* piece placements 1..NumPlacements are packed
NumPlacements == 3
\* depths within DepthMargin of 0 and of MAX_PLY are stored
DepthMargin == 8

(***************************************************************************)
(* Program constants                                                       *)
(***************************************************************************)
MAX_PLY == 128
MATE == 32000 + MAX_PLY
TBWIN == 31000 + MAX_PLY
TBWIN_IN_MAX == TBWIN - MAX_PLY
VALUE_NONE == MATE + 1
WHITE == 0
BLACK == 1
WHITE_PAWN == 0
WHITE_KNIGHT == 1
WHITE_BISHOP == 2
WHITE_ROOK == 3
WHITE_QUEEN == 4
WHITE_KING == 5
BLACK_PAWN == 8
BLACK_KNIGHT == 9
BLACK_BISHOP == 10
BLACK_ROOK == 11
BLACK_QUEEN == 12
BLACK_KING == 13
EMPTY == 14
SQUARE_NB == 64
\* static const uint64_t MB = 1ull << 20
MB == 1048576
\* sizeof(TTBucket), fixed by the assertion (1 << 16) * sizeof(TTBucket) == 2 * MB
SizeofTTBucket == 32
\* slots per bucket
TT_BUCKET_NB == 3
\* two LSBs of a generation byte: bound type; six MSBs: age
TT_MASK_BOUND == 3
TT_MASK_AGE == 252
BOUND_NONE == 0
BOUND_LOWER == 1
BOUND_UPPER == 2
BOUND_EXACT == 3

(***************************************************************************)
(* Fixed-width integer arithmetic                                          *)
(***************************************************************************)
RECURSIVE BitsAnd(_, _)
\* a & b bit by bit, on non-negative integers
BitsAnd(a, b) ==
    IF a = 0 \/ b = 0 THEN 0
    ELSE (a % 2) * (b % 2) + 2 * BitsAnd(a \div 2, b \div 2)

RECURSIVE BitsOr(_, _)
\* a | b bit by bit, on non-negative integers
BitsOr(a, b) ==
    IF a = 0 THEN b
    ELSE IF b = 0 THEN a
    ELSE (IF a % 2 = 1 \/ b % 2 = 1 THEN 1 ELSE 0) + 2 * BitsOr(a \div 2, b \div 2)

\* the two operations tabulated on 4-bit operands
NibbleAnd == [a \in 0..15 |-> [b \in 0..15 |-> BitsAnd(a, b)]]
NibbleOr == [a \in 0..15 |-> [b \in 0..15 |-> BitsOr(a, b)]]
\* the n-th 4-bit digit of x
Nibble(x, n) == (x \div (IF n = 0 THEN 1 ELSE IF n = 1 THEN 16 ELSE IF n = 2 THEN 256 ELSE 4096)) % 16

\* a & b, for operands below 2^16
BitAnd(a, b) ==
    NibbleAnd[Nibble(a, 0)][Nibble(b, 0)] + 16 * NibbleAnd[Nibble(a, 1)][Nibble(b, 1)]
    + 256 * NibbleAnd[Nibble(a, 2)][Nibble(b, 2)] + 4096 * NibbleAnd[Nibble(a, 3)][Nibble(b, 3)]

\* a | b, for operands below 2^16
BitOr(a, b) ==
    NibbleOr[Nibble(a, 0)][Nibble(b, 0)] + 16 * NibbleOr[Nibble(a, 1)][Nibble(b, 1)]
    + 256 * NibbleOr[Nibble(a, 2)][Nibble(b, 2)] + 4096 * NibbleOr[Nibble(a, 3)][Nibble(b, 3)]

\* (int8_t)x
ToInt8(x) == ((x + 128) % 256) - 128
\* the cast of a field declared uint16_t
ToInt16_unsigned(x) == x % 65536
\* (int16_t)x
ToInt16(x) == ((x + 32768) % 65536) - 32768
\* (uint8_t)x
ToUint8(x) == x % 256
\* (uint16_t)x
ToUint16(x) == x % 65536

(***************************************************************************)
(* 64-bit words as 8 little-endian bytes                                   *)
(***************************************************************************)
WordBytes == 8
ByteIdx == 1..WordBytes
ZeroWord == [k \in ByteIdx |-> 0]
\* a | b
WordOr(a, b) == [k \in ByteIdx |-> BitOr(a[k], b[k])]
\* a << 4, the top nibble falls off the 64-bit word
WordShl4(a) ==
    [k \in ByteIdx |-> (a[k] % 16) * 16 + (IF k = 1 THEN 0 ELSE a[k - 1] \div 16)]
\* a >> 4
WordShr4(a) ==
    [k \in ByteIdx |-> (a[k] \div 16) + (IF k = WordBytes THEN 0 ELSE (a[k + 1] % 16) * 16)]
\* a & 0x0F0F0F0F0F0F0F0F
WordAndNibbles(a) == [k \in ByteIdx |-> BitAnd(a[k], 15)]
\* a & 0xFF
WordLowByte(a) == BitAnd(a[1], 255)
\* (a >> 56) & 0xFF
WordHighByte(a) == BitAnd(a[WordBytes], 255)

(***************************************************************************)
(* Boards and their packed verification records                            *)
(***************************************************************************)
\* piece on square sq (0..63) of the start position
StartPiece(sq) ==
    LET backRank == <<WHITE_ROOK, WHITE_KNIGHT, WHITE_BISHOP, WHITE_QUEEN,
                      WHITE_KING, WHITE_BISHOP, WHITE_KNIGHT, WHITE_ROOK>>
    IN  IF sq < 8 THEN backRank[sq + 1]
        ELSE IF sq < 16 THEN WHITE_PAWN
        ELSE IF sq < 48 THEN EMPTY
        ELSE IF sq < 56 THEN BLACK_PAWN
        ELSE backRank[sq - 56 + 1] + 8

\* the b-th board of the model: the start position after b - 1 single pawn
\* pushes on the files a, b, c, ..., alternating white and black
BoardSquare(b, sq) ==
    LET pushed(f, colour) == 2 * f + colour < b - 1
        file == sq % 8
        rank == sq \div 8
    IN  IF rank = 1 /\ pushed(file, WHITE) THEN EMPTY
        ELSE IF rank = 2 /\ pushed(file, WHITE) THEN WHITE_PAWN
        ELSE IF rank = 6 /\ pushed(file, BLACK) THEN EMPTY
        ELSE IF rank = 5 /\ pushed(file, BLACK) THEN BLACK_PAWN
        ELSE StartPiece(sq)

\* struct Board, the fields the table reads: squares[64] seen as eight
\* 64-bit words, castleRooks, epSquare, turn
BoardOf(b) ==
    [rawBoard    |-> [i \in 0..7 |-> [k \in ByteIdx |-> BoardSquare(b, 8 * i + k - 1)]],
     castleRooks |-> [k \in ByteIdx |-> IF k = 1 \/ k = WordBytes THEN 129 ELSE 0],
     epSquare    |-> -1,
     turn        |-> (b - 1) % 2]

Boards == 1..NumBoards

\* boardToBoardHashSrc with the odd words or-ed in unshifted
boardToBoardHashSrc_noShift(board) ==
    [packedSquares |-> [i \in 0..3 |->
                           WordOr(board.rawBoard[i * 2], board.rawBoard[i * 2 + 1])],
     castleRooks   |-> [c \in {WHITE, BLACK} |->
                           IF c = WHITE THEN WordLowByte(board.castleRooks)
                           ELSE WordHighByte(board.castleRooks)],
     epSquare      |-> board.epSquare,
     turn          |-> board.turn,
     padding       |-> 0]

\* boardToBoardHashSrc
boardToBoardHashSrc(board) ==
    [packedSquares |-> [i \in 0..3 |->
                           WordOr(board.rawBoard[i * 2], WordShl4(board.rawBoard[i * 2 + 1]))],
     castleRooks   |-> [c \in {WHITE, BLACK} |->
                           IF c = WHITE THEN WordLowByte(board.castleRooks)
                           ELSE WordHighByte(board.castleRooks)],
     epSquare      |-> board.epSquare,
     turn          |-> board.turn,
     padding       |-> 0]

\* the packed record of every board of the model
HashSrcOf == [b \in 1..(NumBoards + 1) |-> boardToBoardHashSrc(BoardOf(b))]

\* a BoardHashSrc as calloc leaves it
ZeroHashSrc ==
    [packedSquares |-> [i \in 0..3 |-> ZeroWord],
     castleRooks   |-> [c \in {WHITE, BLACK} |-> 0],
     epSquare      |-> 0,
     turn          |-> 0,
     padding       |-> 0]

(***************************************************************************)
(* Hashes                                                                  *)
(***************************************************************************)
RECURSIVE Pow2(_)
\* 1ull << n
Pow2(n) == IF n = 0 THEN 1 ELSE 2 * Pow2(n - 1)

\* a 64-bit hash with top 16 bits sig and low 48 bits idx
MkHash(sig, idx) == [hi16 |-> sig, lo |-> idx]
\* (uint16_t)(hash >> 48)
Hash16(hash) == ToUint16(hash.hi16)
\* hash & Table.hashMask, for a mask of at most 48 one bits
BucketIndex(hash, mask) == hash.lo % (mask + 1)
\* (hash & Table.hashMask) * 3 + slot
VerificationIndex(hash, mask, slot) == BucketIndex(hash, mask) * 3 + slot

\* the h-th of a family of hashes that cycles through the signatures
\* 0..sigs-1: all select bucket 1 of a table of 2^16 buckets, and hashes of
\* one signature differ in the bits between the index and the signature
HashOf(h, sigs) == MkHash((h - 1) % sigs, 65537 + 65536 * ((h - 1) \div sigs))
\* signatures 0 and 1: an empty slot's signature and another one
Hashes == {HashOf(h, 2) : h \in 1..NumHashes}
\* signatures 0..3: one per slot of a bucket and one more
ReplHashes == {HashOf(h, 4) : h \in 1..NumReplHashes}
\* the bucket indexes the model keeps: those the hashes select
Idxs == {BucketIndex(hash, Pow2(16) - 1) : hash \in Hashes \cup ReplHashes}
\* the verification records the model keeps
VerIdxs == {i * 3 + slot : i \in Idxs, slot \in 0..2}

(***************************************************************************)
(* Table entries                                                           *)
(***************************************************************************)
SlotIdx == 0..(TT_BUCKET_NB - 1)
\* a TTEntry as memset leaves it
ZeroEntry ==
    [depth |-> 0, generation |-> 0, eval |-> 0, value |-> 0, move |-> 0, hash16 |-> 0]
\* a TTBucket as memset leaves it
ZeroBucket == [i \in SlotIdx |-> ZeroEntry]

\* no store has reached a slot since the table was allocated
NoStore == [op |-> "none"]
\* written[i][j]: a store has written slot j of bucket i since the last
\* initTT or clearTT
NothingWritten == [i \in Idxs |-> [j \in SlotIdx |-> FALSE]]

(***************************************************************************)
(* The pawn/king table: direct-mapped on the top bits of the full hash     *)
(***************************************************************************)
\* pkhash >> PKT_HASH_SHIFT of a hash kept as MkHash(top 16 bits, low 48 bits)
PKT_KEY_SIZE == 16
PKT_HASH_SHIFT == 64 - PKT_KEY_SIZE
PKIndex(pkhash) == pkhash.hi16
\* the h-th pawn/king hash: two indexes, hashes of one index differing in
\* their low bits; the first is the hash 0 of a zeroed entry
PKHashOf(h) == MkHash((h - 1) % 2, (h - 1) \div 2)
PKHashes == {PKHashOf(h) : h \in 1..NumPKHashes}
\* the entries the model keeps
PKIdxs == {PKIndex(pkhash) : pkhash \in PKHashes}
\* a passed-pawn bitboard: the pawns of file k on the seventh rank
PassedOf(k) == [j \in ByteIdx |-> IF j = 7 THEN Pow2(k) ELSE 0]
\* a PKEntry of a zeroed table
ZeroPKEntry == [pkhash |-> MkHash(0, 0), passed |-> ZeroWord, eval |-> 0]
\* pktable.entries is PKTable.entries, pktable.stored the most recent
\* storePKEntry call per index
ZeroPKTable == [entries |-> [i \in PKIdxs |-> ZeroPKEntry],
                stored  |-> [i \in PKIdxs |-> NoStore]]
\* the null pointer
NULL == [null |-> TRUE]


(***************************************************************************)
(* Inputs                                                                  *)
(***************************************************************************)
Results == 1..NumResults
\* the move, value, eval and depth of the r-th search result; the first is
\* the example of the round trip, the second sits on the limits of the
\* slot's fields, at a depth more than 3 below the first; the third is
\* exactly 3 below the first
ResultOf(r) ==
    IF r = 1 THEN [move |-> 1, value |-> 55, eval |-> 40, depth |-> 10]
    ELSE IF r = 2 THEN [move |-> 65535, value |-> -32768, eval |-> 32767, depth |-> 6]
    ELSE [move |-> r, value |-> 0 - r, eval |-> 2 * r, depth |-> 4 + r]

(***************************************************************************)
(* Initial state: the zero-initialised globals before the first initTT.    *)
(* Table.generation is never reset by initTT or clearTT, so a table is     *)
(* (re)allocated at any generation; where replacement is examined the     *)
(* model starts GenWindow generations before the 8-bit wraparound.         *)
(***************************************************************************)
WrapStart == 256 - 4 * GenWindow
NoCall == [op |-> "none"]

InitTable(gen) ==
    /\ hashMask = 0
    /\ generation = gen
    /\ buckets = <<>>
    /\ verificationHashes = <<>>
    /\ passedLookups = 0
    /\ verificationFailures = 0
    /\ stored = <<>>
    /\ written = <<>>
    /\ last = NoCall

(***************************************************************************)
(* initTT, hashSizeMBTT, updateTT, clearTT                                 *)
(***************************************************************************)
RECURSIVE KeySize_strict(_, _)
\* the sizing loop with a strict comparison
KeySize_strict(keySize, megabytes) ==
    IF Pow2(keySize) * SizeofTTBucket < (megabytes * MB) \div 2
    THEN KeySize_strict(keySize + 1, megabytes)
    ELSE keySize

RECURSIVE KeySize(_, _)
\* while ((1ull << keySize) * sizeof(TTBucket) <= megabytes * MB / 2) keySize++
KeySize(keySize, megabytes) ==
    IF Pow2(keySize) * SizeofTTBucket <= (megabytes * MB) \div 2
    THEN KeySize(keySize + 1, megabytes)
    ELSE keySize

\* the memset of clearTT over the tracked buckets
ClearedBuckets == [i \in Idxs |-> ZeroBucket]

\* initTT with a verification array that keeps its old content on a resize
InitTT_keepsRecords(megabytes) ==
    LET keySize == KeySize(16, megabytes)
    IN  /\ hashMask' = Pow2(keySize) - 1
        /\ verificationHashes' = IF hashMask = 0 THEN [j \in VerIdxs |-> ZeroHashSrc]
                                  ELSE verificationHashes
        /\ buckets' = ClearedBuckets
        /\ stored' = [i \in Idxs |-> [j \in SlotIdx |-> NoStore]]
        /\ written' = NothingWritten
        /\ last' = [op |-> "init", megabytes |-> megabytes]
        /\ UNCHANGED <<generation, passedLookups, verificationFailures, val, mt, pktable>>

InitTT(megabytes) ==
    LET keySize == KeySize(16, megabytes)
    IN  /\ hashMask' = Pow2(keySize) - 1
        /\ verificationHashes' = [j \in VerIdxs |-> ZeroHashSrc]
        /\ buckets' = ClearedBuckets
        /\ stored' = [i \in Idxs |-> [j \in SlotIdx |-> NoStore]]
        /\ written' = NothingWritten
        /\ last' = [op |-> "init", megabytes |-> megabytes]
        /\ UNCHANGED <<generation, passedLookups, verificationFailures, val, mt, pktable>>

\* ((Table.hashMask + 1) * sizeof(TTBucket)) / MB
hashSizeMBTT == ((hashMask + 1) * SizeofTTBucket) \div MB

HashSizeMBTT ==
    /\ hashMask # 0
    /\ last' = [op |-> "size", ret |-> hashSizeMBTT]
    /\ UNCHANGED <<hashMask, generation, buckets, verificationHashes,
                   passedLookups, verificationFailures, stored, val, mt,
                   written, pktable>>

\* updateTT that adds the mask instead of the mask plus one
UpdateTT_addsMask ==
    /\ generation' = ToUint8(generation + TT_MASK_BOUND)
    /\ last' = IF last.op = "update"
               THEN [last EXCEPT !.n = @ + 1]
               ELSE [op |-> "update", n |-> 1, generation0 |-> generation,
                     buckets0 |-> buckets]
    /\ UNCHANGED <<hashMask, buckets, verificationHashes,
                   passedLookups, verificationFailures, stored, val, mt,
                   written, pktable>>

UpdateTT ==
    /\ generation' = ToUint8(generation + TT_MASK_BOUND + 1)
    /\ last' = IF last.op = "update"
               THEN [last EXCEPT !.n = @ + 1]
               ELSE [op |-> "update", n |-> 1, generation0 |-> generation,
                     buckets0 |-> buckets]
    /\ UNCHANGED <<hashMask, buckets, verificationHashes,
                   passedLookups, verificationFailures, stored, val, mt,
                   written, pktable>>

ClearTT ==
    /\ hashMask # 0
    /\ buckets' = ClearedBuckets
    /\ last' = [op |-> "clear"]
    /\ written' = NothingWritten
    /\ UNCHANGED <<hashMask, generation, verificationHashes,
                   passedLookups, verificationFailures, stored, val, mt,
                   pktable>>


(***************************************************************************)
(* valueFromTT, valueToTT                                                  *)
(***************************************************************************)
\* valueFromTT with the sign of the correction of negative scores swapped
valueFromTT_sameSign(value, height) ==
    IF value >= TBWIN_IN_MAX THEN value - height
    ELSE IF value <= 0 - TBWIN_IN_MAX THEN value - height
    ELSE value

valueFromTT(value, height) ==
    IF value >= TBWIN_IN_MAX THEN value - height
    ELSE IF value <= 0 - TBWIN_IN_MAX THEN value + height
    ELSE value

\* valueToTT with the thresholds themselves left alone
valueToTT_strict(value, height) ==
    IF value > TBWIN_IN_MAX THEN value + height
    ELSE IF value < 0 - TBWIN_IN_MAX THEN value - height
    ELSE value

valueToTT(value, height) ==
    IF value >= TBWIN_IN_MAX THEN value + height
    ELSE IF value <= 0 - TBWIN_IN_MAX THEN value - height
    ELSE value

\* a caller applies valueToTT to a score
ValueToTT ==
    /\ val.op = "input"
    /\ val' = [op |-> "toTT", value |-> val.value, height |-> val.height,
               tt |-> valueToTT(val.value, val.height)]
    /\ UNCHANGED <<hashMask, generation, buckets, verificationHashes,
                   passedLookups, verificationFailures, stored, last, mt,
                   written, pktable>>

\* a caller applies valueFromTT to what valueToTT returned
ValueFromTT ==
    /\ val.op = "toTT"
    /\ val' = [op |-> "fromTT", value |-> val.value, height |-> val.height,
               tt |-> val.tt, back |-> valueFromTT(val.tt, val.height)]
    /\ UNCHANGED <<hashMask, generation, buckets, verificationHashes,
                   passedLookups, verificationFailures, stored, last, mt,
                   written, pktable>>

\* a caller applies valueFromTT to a score
ValueFromTTFirst ==
    /\ val.op = "input"
    /\ val' = [op |-> "fromTTFirst", value |-> val.value, height |-> val.height,
               from |-> valueFromTT(val.value, val.height)]
    /\ UNCHANGED <<hashMask, generation, buckets, verificationHashes,
                   passedLookups, verificationFailures, stored, last, mt,
                   written, pktable>>

(***************************************************************************)
(* verifyTTEntry, getTTEntry                                               *)
(***************************************************************************)
\* the out-parameters of getTTEntry when it returns 0: left as the caller had them
Untouched == [op |-> "untouched"]

\* memcmp(&hashSrc, verificationBoard, sizeof(BoardHashSrc)) != 0
VerifyMismatch(hashSrc, verificationBoard) == hashSrc # verificationBoard

\* the "skip increase if all zeroes" test
PackedSquaresAllZero(verificationBoard) ==
    /\ verificationBoard.packedSquares[0] = ZeroWord
    /\ verificationBoard.packedSquares[1] = ZeroWord
    /\ verificationBoard.packedSquares[2] = ZeroWord
    /\ verificationBoard.packedSquares[3] = ZeroWord

\* verifyTTEntry without the comparison: every signature match is trusted
verifyTTEntry_trusting(hash, slot, b) == 0

\* return value of verifyTTEntry
verifyTTEntry(hash, slot, b) ==
    IF VerifyMismatch(HashSrcOf[b],
                      verificationHashes[VerificationIndex(hash, hashMask, slot)])
    THEN 1 ELSE 0

\* verificationFailures after a verifyTTEntry that counts empty records too
VerifyFailures_countsEmpty(hash, slot, b) ==
    LET verificationBoard == verificationHashes[VerificationIndex(hash, hashMask, slot)]
    IN  IF VerifyMismatch(HashSrcOf[b], verificationBoard)
        THEN verificationFailures + 1
        ELSE verificationFailures

\* verificationFailures after verifyTTEntry
VerifyFailures(hash, slot, b) ==
    LET verificationBoard == verificationHashes[VerificationIndex(hash, hashMask, slot)]
    IN  IF /\ VerifyMismatch(HashSrcOf[b], verificationBoard)
           /\ ~PackedSquaresAllZero(verificationBoard)
        THEN verificationFailures + 1
        ELSE verificationFailures

RECURSIVE FirstMatch(_, _, _)
\* for (i = 0; i < TT_BUCKET_NB; i++) if (slots[i].hash16 == hash16): the
\* first index whose signature matches, TT_BUCKET_NB when there is none
FirstMatch(slots, hash16, i) ==
    IF i = TT_BUCKET_NB THEN TT_BUCKET_NB
    ELSE IF slots[i].hash16 = hash16 THEN i
    ELSE FirstMatch(slots, hash16, i + 1)

\* the age update without the bound bits of the slot
RefreshedGeneration_noBound(entry) == ToUint8(generation)

\* slots[i].generation = Table.generation | (slots[i].generation & TT_MASK_BOUND)
RefreshedGeneration(entry) ==
    ToUint8(BitOr(generation, BitAnd(entry.generation, TT_MASK_BOUND)))

GetTTEntry(hash, b) ==
    LET hash16 == Hash16(hash)
        idx    == BucketIndex(hash, hashMask)
        call   == [op |-> "get", hash |-> hash, board |-> b,
                   after |-> IF last.op = "store"
                             THEN [op |-> "store", over |-> last.over]
                             ELSE [op |-> last.op]]
    IN  /\ hashMask # 0
        /\ \E i \in {FirstMatch(buckets[idx], hash16, 0)} :
             IF i = TT_BUCKET_NB
             THEN \* no matching signature
                  /\ last' = call @@ [ret |-> 0, out |-> Untouched]
                  /\ UNCHANGED <<buckets, passedLookups, verificationFailures>>
             ELSE IF verifyTTEntry(hash, i, b) = 1
             THEN \* verification failed
                  /\ last' = call @@ [ret |-> 0, out |-> Untouched]
                  /\ verificationFailures' = VerifyFailures(hash, i, b)
                  /\ passedLookups' = passedLookups + 1
                  /\ UNCHANGED buckets
             ELSE \E g \in {RefreshedGeneration(buckets[idx][i])} :
                  /\ buckets' = [buckets EXCEPT ![idx][i].generation = g]
                  /\ last' = call @@
                         [ret |-> 1,
                          out |-> [move  |-> buckets[idx][i].move,
                                   value |-> buckets[idx][i].value,
                                   eval  |-> buckets[idx][i].eval,
                                   depth |-> buckets[idx][i].depth,
                                   bound |-> BitAnd(g, TT_MASK_BOUND),
                                   slot  |-> i]]
                  /\ verificationFailures' = VerifyFailures(hash, i, b)
                  /\ passedLookups' = passedLookups + 1
        /\ UNCHANGED <<hashMask, generation, verificationHashes, stored, val, mt,
                       written, pktable>>

(***************************************************************************)
(* storeTTEntry                                                            *)
(***************************************************************************)
\* the replacement score without the mask: the bound bits count as age
ReplaceScore_unmasked(entry, gen) ==
    entry.depth - ((259 + gen - entry.generation) % 256)

\* depth - ((259 + Table.generation - slot.generation) & TT_MASK_AGE)
ReplaceScore(entry, gen) ==
    entry.depth - BitAnd(259 + gen - entry.generation, TT_MASK_AGE)

RECURSIVE ScanReplace(_, _, _, _, _)
\* the scanning loop of storeTTEntry from index i with candidate replace:
\* <<index where the loop stops, candidate>>
ScanReplace(slots, hash16, gen, i, replace) ==
    IF i = TT_BUCKET_NB \/ slots[i].hash16 = hash16 THEN <<i, replace>>
    ELSE ScanReplace(slots, hash16, gen, i + 1,
                     IF ReplaceScore(slots[replace], gen) >= ReplaceScore(slots[i], gen)
                     THEN i ELSE replace)

\* the choice of the slot without the preference for a matching signature
ReplaceIndex_scoreOnly(slots, hash16, gen) ==
    ScanReplace(slots, hash16, gen, 0, 0)[2]

\* replace = (i != TT_BUCKET_NB) ? &slots[i] : replace, as an index
ReplaceIndex(slots, hash16, gen) ==
    LET scan == ScanReplace(slots, hash16, gen, 0, 0)
    IN  IF scan[1] # TT_BUCKET_NB THEN scan[1] ELSE scan[2]

\* the early return without the exemption of exact bounds
StoreDiscarded_exactToo(entry, hash16, depth, bound) ==
    /\ hash16 = entry.hash16
    /\ depth < entry.depth - 3

\* the early return with the depth margin off by one
StoreDiscarded_margin(entry, hash16, depth, bound) ==
    /\ bound # BOUND_EXACT
    /\ hash16 = entry.hash16
    /\ depth < entry.depth - 4

\* the early return: a shallow non-exact result for the same signature
StoreDiscarded(entry, hash16, depth, bound) ==
    /\ bound # BOUND_EXACT
    /\ hash16 = entry.hash16
    /\ depth < entry.depth - 3

\* the entry written by a storeTTEntry that drops the bound
NewEntry_noBound(hash16, move, value, eval, depth, bound, gen) ==
    [depth      |-> ToInt8(depth),
     generation |-> gen,
     value      |-> ToInt16(value),
     eval       |-> ToInt16(eval),
     move       |-> ToUint16(move),
     hash16     |-> ToUint16(hash16)]

\* the entry written by storeTTEntry
NewEntry(hash16, move, value, eval, depth, bound, gen) ==
    [depth      |-> ToInt8(depth),
     generation |-> BitOr(ToUint8(bound), gen),
     value      |-> ToInt16(value),
     eval       |-> ToInt16(eval),
     move       |-> ToUint16(move),
     hash16     |-> ToUint16(hash16)]

\* what a store call finds in the slot it targets
Overwritten(entry) ==
    [hash16 |-> entry.hash16, depth |-> entry.depth, generation |-> entry.generation]

StoreTTEntry(hash, move, value, eval, depth, bound, b) ==
    LET hash16 == Hash16(hash)
        idx    == BucketIndex(hash, hashMask)
        call   == [op |-> "store", hash |-> hash, move |-> move, value |-> value,
                   eval |-> eval, depth |-> depth, bound |-> bound, board |-> b]
    IN  /\ hashMask # 0
        /\ \E replace \in {ReplaceIndex(buckets[idx], hash16, generation)} :
             /\ last' = call @@ [over |-> Overwritten(buckets[idx][replace])]
             /\ IF StoreDiscarded(buckets[idx][replace], hash16, depth, bound)
                THEN UNCHANGED <<buckets, verificationHashes, stored, written>>
                ELSE /\ buckets' = [buckets EXCEPT ![idx][replace] =
                                       NewEntry(hash16, move, value, eval, depth, bound,
                                                generation)]
                     /\ verificationHashes' =
                            [verificationHashes EXCEPT
                                ![VerificationIndex(hash, hashMask, replace)] = HashSrcOf[b]]
                     /\ stored' = [stored EXCEPT ![idx][replace] = call]
                     /\ written' = [written EXCEPT ![idx][replace] = TRUE]
        /\ UNCHANGED <<hashMask, generation, passedLookups, verificationFailures, val, mt,
                       pktable>>

(***************************************************************************)
(* The single-worker table, inputs chosen to examine the verification      *)
(***************************************************************************)
Init ==
    /\ InitTable(0)
    /\ val = NoCall
    /\ mt = NoCall
    /\ pktable = ZeroPKTable

\* the counter of consecutive updateTT calls is capped
UpdateCounted == last.op = "update" => last.n < MaxUpdates

VerBounds == {BOUND_LOWER, BOUND_EXACT}

Store ==
    \E hash \in Hashes, r \in Results, bound \in VerBounds, b \in Boards :
        StoreTTEntry(hash, ResultOf(r).move, ResultOf(r).value, ResultOf(r).eval,
                     ResultOf(r).depth, bound, b)

Get ==
    /\ passedLookups < MaxLookups
    /\ \E hash \in Hashes, b \in Boards : GetTTEntry(hash, b)

Resize == InitTT(2)

Update ==
    /\ generation < 4 * GenWindow
    /\ UpdateCounted
    /\ UpdateTT

Next ==
    \/ Resize
    \/ ClearTT
    \/ Update
    \/ Store
    \/ Get

Spec == Init /\ [][Next]_vars


(***************************************************************************)
(* The same table without clearTT                                          *)
(***************************************************************************)
NextNoClear ==
    \/ Resize
    \/ Update
    \/ Store
    \/ Get

SpecNoClear == Init /\ [][NextNoClear]_vars

(***************************************************************************)
(* Properties of a probe                                                   *)
(***************************************************************************)
\* the last operation was a getTTEntry
Probed == last.op = "get"
\* the last operation was a getTTEntry that reported a hit
Hit == Probed /\ last.ret = 1
\* the most recent store that was not discarded, into the slot of the hit
HitStore == stored[BucketIndex(last.hash, hashMask)][last.out.slot]
\* the out-parameters are the arguments of the store call
ReturnsArgumentsOf(call) ==
    /\ last.out.move = call.move
    /\ last.out.value = call.value
    /\ last.out.eval = call.eval
    /\ last.out.depth = call.depth
    /\ last.out.bound = call.bound

\* C1: without clearTT, a hit returns exactly the arguments of the most
\* recent non-discarded storeTTEntry into the slot, and that store was made
\* with the probed board; a probe for a board whose slot another board of
\* the same signature has overwritten is a miss
C1_HitIsLastStoreOfBoard ==
    /\ Hit => /\ HitStore.op = "store"
              /\ HitStore.board = last.board
              /\ ReturnsArgumentsOf(HitStore)
    /\ Probed =>
         \A i \in SlotIdx :
            LET idx == BucketIndex(last.hash, hashMask)
            IN  (/\ FirstMatch(buckets[idx], Hash16(last.hash), 0) = i
                 /\ stored[idx][i].op = "store"
                 /\ stored[idx][i].board # last.board) => last.ret = 0

\* the first matching slot of the probed bucket
ProbedSlot == FirstMatch(buckets[BucketIndex(last.hash, hashMask)], Hash16(last.hash), 0)
\* the most recent store that was not discarded, into that slot
ProbedStore == stored[BucketIndex(last.hash, hashMask)][ProbedSlot]

\* a probe for a board, turned into a miss by the verification, right after a
\* store for another board has overwritten an entry of the same signature
C1_Witness ==
    /\ Probed
    /\ last.ret = 0
    /\ verificationFailures = 1
    /\ ProbedSlot # TT_BUCKET_NB
    /\ ProbedStore.op = "store"
    /\ ProbedStore.board # last.board
    /\ Hash16(ProbedStore.hash) = Hash16(last.hash)
    /\ last.after.op = "store"
    /\ last.after.over.hash16 = Hash16(last.hash)
    /\ last.after.over.depth > 0

\* C3 as claimed: a getTTEntry immediately after clearTT reports "not found"
C3_MissAfterClear ==
    (Probed /\ last.after.op = "clear") => last.ret = 0

\* C4: storeTTEntry with an exact bound immediately followed by getTTEntry
\* of the same hash and board is a hit with exactly the stored move, value,
\* eval, depth and the exact bound
C4_ExactStoreThenProbe ==
    [][(/\ last.op = "store"
        /\ last.bound = BOUND_EXACT
        /\ last'.op = "get"
        /\ last'.hash = last.hash
        /\ last'.board = last.board)
       => (/\ last'.ret = 1
           /\ last'.out.move = last.move
           /\ last'.out.value = last.value
           /\ last'.out.eval = last.eval
           /\ last'.out.depth = last.depth
           /\ last'.out.bound = BOUND_EXACT)]_vars

\* a hit right after an exact store of the shallow result on the limits of
\* the 16-bit fields over a deeper entry of the same signature
C4_Witness ==
    /\ Hit
    /\ last.after.op = "store"
    /\ last.after.over.hash16 = Hash16(last.hash)
    /\ last.after.over.depth > last.out.depth + 3
    /\ HitStore.bound = BOUND_EXACT
    /\ HitStore.hash = last.hash
    /\ ReturnsArgumentsOf(HitStore)
    /\ last.out.value = -32768
    /\ last.out.eval = 32767
    /\ last.out.move = 65535

\* no store has reached any slot since initTT
NothingStored == \A i \in Idxs : \A j \in SlotIdx : stored[i][j] = NoStore

\* C7: from initTT until the next storeTTEntry every getTTEntry is a miss
C7_MissAfterInit ==
    (Probed /\ NothingStored) => last.ret = 0

\* a probe with signature 0 right after initTT at a later generation: it
\* reaches the all-zero verification record of slot 0
C7_Witness ==
    /\ Probed
    /\ last.after.op = "init"
    /\ NothingStored
    /\ Hash16(last.hash) = 0
    /\ passedLookups = 1
    /\ generation > 0


(***************************************************************************)
(* The table with inputs chosen to examine the replacement: four           *)
(* signatures, each hash with its own depth out of 2, 5, 7 and 9,          *)
(* generations across the 8-bit wraparound                                 *)
(***************************************************************************)
InitRepl ==
    /\ InitTable(WrapStart)
    /\ val = NoCall
    /\ mt = NoCall
    /\ pktable = ZeroPKTable

\* the depth stored with the h-th hash: signatures 0, 1, 2, 3 come with
\* depths 7, 2, 5, 9, and later hashes of a signature with the next depth
ReplDepthOf(h) == <<7, 2, 5, 9>>[((h - 1 + ((h - 1) \div 4)) % 4) + 1]
ReplBounds == {BOUND_UPPER, BOUND_EXACT}

StoreRepl ==
    \E h \in 1..NumReplHashes, bound \in ReplBounds :
        StoreTTEntry(HashOf(h, 4), ResultOf(1).move, ResultOf(1).value, ResultOf(1).eval,
                     ReplDepthOf(h), bound, 1)

\* updateTT up to the wraparound of the generation
UpdateRepl ==
    /\ generation >= WrapStart
    /\ UpdateCounted
    /\ UpdateTT

NextRepl ==
    \/ Resize
    \/ UpdateRepl
    \/ StoreRepl

SpecRepl == InitRepl /\ [][NextRepl]_vars

(***************************************************************************)
(* Properties of a store                                                   *)
(***************************************************************************)
\* the 6-bit age tag of a generation byte, and its 2 bound bits
AgeOf(gen) == gen \div 4
BoundOf(gen) == gen % 4

\* the entry that a store call with the arguments of call writes
EntryOf(call, gen) ==
    [depth      |-> call.depth,
     generation |-> gen + call.bound,
     value      |-> call.value,
     eval       |-> call.eval,
     move       |-> call.move,
     hash16     |-> Hash16(call.hash)]

\* this step is a storeTTEntry call that lands in bucket idx
StoreStep(idx) ==
    /\ last'.op = "store"
    /\ hashMask # 0
    /\ idx = BucketIndex(last'.hash, hashMask)

\* slot i of bucket idx and its verification record are overwritten with the
\* data of the call, and no other slot or record changes
Overwrites(idx, i) ==
    /\ buckets' = [buckets EXCEPT ![idx][i] = EntryOf(last', generation)]
    /\ verificationHashes' =
          [verificationHashes EXCEPT ![idx * 3 + i] = HashSrcOf[last'.board]]
    /\ generation' = generation

\* the call changes no slot, no verification record and not the generation
ChangesNothing ==
    /\ buckets' = buckets
    /\ verificationHashes' = verificationHashes
    /\ generation' = generation

GenerationsSince(entry, gen) == (AgeOf(gen) - AgeOf(entry.generation)) % 64
\* depth - 4 * generations since the age tag
AgedDepth(entry, gen) == entry.depth - 4 * GenerationsSince(entry, gen)
\* slot i has the lowest score of the bucket, and is the highest such index
Weakest(slots, gen, i) ==
    \A j \in SlotIdx :
       /\ AgedDepth(slots[i], gen) <= AgedDepth(slots[j], gen)
       /\ AgedDepth(slots[i], gen) = AgedDepth(slots[j], gen) => j <= i

Megabytes == 2..MaxMB

ResizeAny == \E megabytes \in Megabytes : InitTT(megabytes)

NextSize ==
    \/ ResizeAny
    \/ HashSizeMBTT

SpecSize == Init /\ [][NextSize]_vars

IsPowerOfTwo(n) == \E k \in 0..30 : n = Pow2(k)
\* (hashMask + 1) * sizeof(TTBucket)
AllocatedBytes == (hashMask + 1) * SizeofTTBucket

\* C8: after initTT(m), m >= 2, the allocated size is a power of two, at most
\* m * 2^20 bytes and more than half of that; the bucket count is a power of
\* two and hashSizeMBTT reports the size in megabytes
C8_SizingLaw ==
    /\ last.op = "init" =>
          /\ IsPowerOfTwo(AllocatedBytes)
          /\ AllocatedBytes <= last.megabytes * MB
          /\ 2 * AllocatedBytes > last.megabytes * MB
          /\ IsPowerOfTwo(hashMask + 1)
    /\ last.op = "size" => last.ret * MB = AllocatedBytes

\* a request of 100 megabytes has allocated 64 megabytes, 2^21 buckets
C8_Witness ==
    /\ last.op = "init"
    /\ last.megabytes = 100
    /\ hashMask + 1 = Pow2(21)
    /\ AllocatedBytes = 64 * MB

(***************************************************************************)
(* Mate scores: the two conversions on scores around the thresholds        *)
(***************************************************************************)
Abs(x) == IF x < 0 THEN 0 - x ELSE x
\* scores within Margin of 0, of the threshold TBWIN_IN_MAX and of MATE
Values ==
    {v \in (0 - MATE)..MATE :
        \/ Abs(v) <= Margin
        \/ Abs(Abs(v) - TBWIN_IN_MAX) <= Margin
        \/ Abs(v) >= MATE - Margin}
Heights == 0..MAX_PLY

InitValue ==
    /\ InitTable(0)
    /\ mt = NoCall
    /\ pktable = ZeroPKTable
    /\ val \in {[op |-> "input", value |-> v, height |-> h] : v \in Values, h \in Heights}

NextValue ==
    \/ ValueToTT
    \/ ValueFromTT
    \/ ValueFromTTFirst

SpecValue == InitValue /\ [][NextValue]_vars

\* C9: valueFromTT undoes valueToTT at the same height on every score with
\* |v| >= 31000, and both leave every score with |v| < 31000 as it is
C9_MateScoreRoundTrip ==
    /\ (val.op = "fromTT" /\ Abs(val.value) >= 31000) => val.back = val.value
    /\ (val.op = "toTT" /\ Abs(val.value) < 31000) => val.tt = val.value
    /\ (val.op = "fromTTFirst" /\ Abs(val.value) < 31000) => val.from = val.value

\* the round trip of being mated at the root, at height 128
C9_Witness ==
    /\ val.op = "fromTT"
    /\ val.value = 0 - MATE
    /\ val.height = MAX_PLY
    /\ val.tt = 0 - MATE - MAX_PLY
    /\ val.back = 0 - MATE

(***************************************************************************)
(* Generations: updateTT all around the 8-bit counter, stores in the       *)
(* first generations                                                       *)
(***************************************************************************)
StoreGen ==
    /\ generation < 4 * GenWindow
    /\ \E bound \in VerBounds :
          StoreTTEntry(HashOf(2, 2), ResultOf(1).move, ResultOf(1).value,
                       ResultOf(1).eval, ResultOf(1).depth, bound, 1)

UpdateGen == UpdateCounted /\ UpdateTT

NextGen ==
    \/ Resize
    \/ StoreGen
    \/ UpdateGen

SpecGen == Init /\ [][NextGen]_vars

\* C10: each updateTT adds 4 modulo 256 to Table.generation, so 64 calls in a
\* row return it to its value; no slot changes in such a row of calls
C10_GenerationWraparound ==
    last.op = "update" =>
       /\ generation = (last.generation0 + 4 * last.n) % 256
       /\ last.n = 64 => generation = last.generation0
       /\ buckets = last.buckets0

\* 64 calls in a row on a table that holds an exact entry written in the
\* generation the calls started from
C10_Witness ==
    /\ hashMask # 0
    /\ last.op = "update"
    /\ last.n = 64
    /\ generation = 0
    /\ \E idx \in Idxs : \E i \in SlotIdx :
          /\ buckets[idx][i].hash16 = 1
          /\ BoundOf(buckets[idx][i].generation) = BOUND_EXACT
          /\ AgeOf(buckets[idx][i].generation) = AgeOf(last.generation0)


(***************************************************************************)
(* Several workers on one bucket, without locks.  Every read and every     *)
(* write of a slot field is a step of its own, in program order; the       *)
(* memcmp and the memcpy of a verification record are one step each, and   *)
(* the two counters are updated in the step of the memcmp.                 *)
(* mt.pc[w] is the position of worker w, mt.loc[w] its arguments and       *)
(* locals, mt.calls the storeTTEntry calls made so far.                    *)
(***************************************************************************)
Workers == {1, 2}
Idle == [op |-> "idle"]

\* the table after initTT(2), the workers not yet started
InitMT ==
    /\ hashMask = Pow2(KeySize(16, 2)) - 1
    /\ generation = 0
    /\ buckets = ClearedBuckets
    /\ verificationHashes = [j \in VerIdxs |-> ZeroHashSrc]
    /\ passedLookups = 0
    /\ verificationFailures = 0
    /\ stored = [i \in Idxs |-> [j \in SlotIdx |-> NoStore]]
    /\ written = NothingWritten
    /\ pktable = ZeroPKTable
    /\ last = NoCall
    /\ val = NoCall
    /\ mt = [ops |-> 0, calls |-> {}, pc |-> [w \in Workers |-> "idle"],
             loc |-> [w \in Workers |-> Idle]]

MTpc(w) == mt.pc[w]
MTloc(w) == mt.loc[w]
\* the bucket index of the call of worker w
MTidx(w) == BucketIndex(MTloc(w).hash, hashMask)
\* the slots of the bucket of the call of worker w
MTslots(w) == buckets[MTidx(w)]
\* worker w moves to pc with locals loc
MTgoto(w, pc, loc) == mt' = [mt EXCEPT !.pc[w] = pc, !.loc[w] = loc]
MTtable == <<buckets, verificationHashes>>
MTcounters == <<passedLookups, verificationFailures>>
MTrest == <<hashMask, generation, stored, last, val, written, pktable>>

\* ---- getTTEntry ----
MTStartGet(w, hash, b) ==
    /\ MTpc(w) = "idle"
    /\ mt.ops < MaxOps
    /\ mt' = [mt EXCEPT !.ops = @ + 1, !.pc[w] = "get_scan",
                        !.loc[w] = [op |-> "get", hash |-> hash, board |-> b, i |-> 0]]
    /\ UNCHANGED <<MTtable, MTcounters, MTrest>>

\* for (i ...) if (slots[i].hash16 == hash16)
MTGetScan(w) ==
    /\ MTpc(w) = "get_scan"
    /\ LET loc == MTloc(w)
       IN  IF loc.i = TT_BUCKET_NB
           THEN MTgoto(w, "idle", [op |-> "got", hash |-> loc.hash, board |-> loc.board,
                                   ret |-> 0])
           ELSE IF MTslots(w)[loc.i].hash16 = Hash16(loc.hash)
           THEN MTgoto(w, "get_verify", loc)
           ELSE MTgoto(w, "get_scan", [loc EXCEPT !.i = @ + 1])
    /\ UNCHANGED <<MTtable, MTcounters, MTrest>>

\* if (verifyTTEntry(hash, i, board)) return 0
MTGetVerify(w) ==
    /\ MTpc(w) = "get_verify"
    /\ LET loc == MTloc(w)
       IN  /\ verificationFailures' = VerifyFailures(loc.hash, loc.i, loc.board)
           /\ passedLookups' = passedLookups + 1
           /\ IF verifyTTEntry(loc.hash, loc.i, loc.board) = 1
              THEN MTgoto(w, "idle", [op |-> "got", hash |-> loc.hash,
                                      board |-> loc.board, ret |-> 0])
              ELSE MTgoto(w, "get_rgen", loc)
    /\ UNCHANGED <<MTtable, MTrest>>

\* the read of slots[i].generation in the age update
MTGetReadGen(w) ==
    /\ MTpc(w) = "get_rgen"
    /\ MTgoto(w, "get_wgen", MTloc(w) @@ [g |-> MTslots(w)[MTloc(w).i].generation])
    /\ UNCHANGED <<MTtable, MTcounters, MTrest>>

\* slots[i].generation = Table.generation | (... & TT_MASK_BOUND)
MTGetWriteGen(w) ==
    /\ MTpc(w) = "get_wgen"
    /\ LET loc == MTloc(w)
       IN  /\ buckets' = [buckets EXCEPT ![MTidx(w)][loc.i].generation =
                             ToUint8(BitOr(generation, BitAnd(loc.g, TT_MASK_BOUND)))]
           /\ MTgoto(w, "get_move", [op |-> "get", hash |-> loc.hash, board |-> loc.board,
                                     i |-> loc.i])
    /\ UNCHANGED <<verificationHashes, MTcounters, MTrest>>

\* *move = slots[i].move
MTGetReadMove(w) ==
    /\ MTpc(w) = "get_move"
    /\ MTgoto(w, "get_value", MTloc(w) @@ [move |-> MTslots(w)[MTloc(w).i].move])
    /\ UNCHANGED <<MTtable, MTcounters, MTrest>>

\* *value = slots[i].value
MTGetReadValue(w) ==
    /\ MTpc(w) = "get_value"
    /\ MTgoto(w, "get_eval", MTloc(w) @@ [value |-> MTslots(w)[MTloc(w).i].value])
    /\ UNCHANGED <<MTtable, MTcounters, MTrest>>

\* *eval = slots[i].eval
MTGetReadEval(w) ==
    /\ MTpc(w) = "get_eval"
    /\ MTgoto(w, "get_depth", MTloc(w) @@ [eval |-> MTslots(w)[MTloc(w).i].eval])
    /\ UNCHANGED <<MTtable, MTcounters, MTrest>>

\* *depth = slots[i].depth
MTGetReadDepth(w) ==
    /\ MTpc(w) = "get_depth"
    /\ MTgoto(w, "get_bound", MTloc(w) @@ [depth |-> MTslots(w)[MTloc(w).i].depth])
    /\ UNCHANGED <<MTtable, MTcounters, MTrest>>

\* *bound = slots[i].generation & TT_MASK_BOUND; *slot = i; return 1
MTGetReadBound(w) ==
    /\ MTpc(w) = "get_bound"
    /\ LET loc == MTloc(w)
       IN  MTgoto(w, "idle",
                  [op |-> "got", hash |-> loc.hash, board |-> loc.board, ret |-> 1,
                   move |-> loc.move, value |-> loc.value, eval |-> loc.eval,
                   depth |-> loc.depth,
                   bound |-> BitAnd(MTslots(w)[loc.i].generation, TT_MASK_BOUND),
                   slot |-> loc.i])
    /\ UNCHANGED <<MTtable, MTcounters, MTrest>>

\* ---- storeTTEntry ----
MTStartStore(w, hash, move, value, eval, depth, bound, b) ==
    /\ MTpc(w) = "idle"
    /\ mt.ops < MaxOps
    /\ LET call == [hash |-> hash, move |-> move, value |-> value, eval |-> eval,
                    depth |-> depth, bound |-> bound, board |-> b]
       IN  mt' = [mt EXCEPT !.ops = @ + 1, !.calls = @ \cup {call},
                            !.pc[w] = "store_scan",
                            !.loc[w] = call @@ [op |-> "store", i |-> 0, replace |-> 0]]
    /\ UNCHANGED <<MTtable, MTcounters, MTrest>>

\* the arguments and the chosen slot, the scan's temporaries dropped
MTstoreLoc(loc, replace) ==
    [op |-> "store", hash |-> loc.hash, move |-> loc.move, value |-> loc.value,
     eval |-> loc.eval, depth |-> loc.depth, bound |-> loc.bound, board |-> loc.board,
     i |-> loc.i, replace |-> replace]

\* i < TT_BUCKET_NB && slots[i].hash16 != hash16; after the loop
\* replace = (i != TT_BUCKET_NB) ? &slots[i] : replace and bound != BOUND_EXACT
MTStoreScan(w) ==
    /\ MTpc(w) = "store_scan"
    /\ LET loc == MTloc(w)
       IN  IF loc.i < TT_BUCKET_NB /\ MTslots(w)[loc.i].hash16 # Hash16(loc.hash)
           THEN MTgoto(w, "store_rdepth", loc)
           ELSE MTgoto(w, IF loc.bound # BOUND_EXACT THEN "store_gsig" ELSE "store_wdepth",
                       MTstoreLoc(loc, IF loc.i # TT_BUCKET_NB THEN loc.i ELSE loc.replace))
    /\ UNCHANGED <<MTtable, MTcounters, MTrest>>

\* the read of replace->depth
MTStoreReadReplaceDepth(w) ==
    /\ MTpc(w) = "store_rdepth"
    /\ MTgoto(w, "store_rgen", MTloc(w) @@ [rd |-> MTslots(w)[MTloc(w).replace].depth])
    /\ UNCHANGED <<MTtable, MTcounters, MTrest>>

\* the read of replace->generation
MTStoreReadReplaceGen(w) ==
    /\ MTpc(w) = "store_rgen"
    /\ MTgoto(w, "store_sdepth",
              MTloc(w) @@ [rg |-> MTslots(w)[MTloc(w).replace].generation])
    /\ UNCHANGED <<MTtable, MTcounters, MTrest>>

\* the read of slots[i].depth
MTStoreReadSlotDepth(w) ==
    /\ MTpc(w) = "store_sdepth"
    /\ MTgoto(w, "store_sgen", MTloc(w) @@ [sd |-> MTslots(w)[MTloc(w).i].depth])
    /\ UNCHANGED <<MTtable, MTcounters, MTrest>>

\* the read of slots[i].generation, the comparison, replace = &slots[i], i++
MTStoreReadSlotGen(w) ==
    /\ MTpc(w) = "store_sgen"
    /\ LET loc == MTloc(w)
           sg  == MTslots(w)[loc.i].generation
           ge  == ReplaceScore([depth |-> loc.rd, generation |-> loc.rg], generation)
                     >= ReplaceScore([depth |-> loc.sd, generation |-> sg], generation)
       IN  MTgoto(w, "store_scan",
                  [MTstoreLoc(loc, IF ge THEN loc.i ELSE loc.replace) EXCEPT !.i = @ + 1])
    /\ UNCHANGED <<MTtable, MTcounters, MTrest>>

\* && hash16 == replace->hash16
MTStoreGuardSig(w) ==
    /\ MTpc(w) = "store_gsig"
    /\ MTgoto(w, IF Hash16(MTloc(w).hash) = MTslots(w)[MTloc(w).replace].hash16
                 THEN "store_gdepth" ELSE "store_wdepth", MTloc(w))
    /\ UNCHANGED <<MTtable, MTcounters, MTrest>>

\* && depth < replace->depth - 3) return
MTStoreGuardDepth(w) ==
    /\ MTpc(w) = "store_gdepth"
    /\ IF MTloc(w).depth < MTslots(w)[MTloc(w).replace].depth - 3
       THEN MTgoto(w, "idle", Idle)
       ELSE MTgoto(w, "store_wdepth", MTloc(w))
    /\ UNCHANGED <<MTtable, MTcounters, MTrest>>

\* worker w writes field f of the slot it replaces and moves to pc
MTwrite(w, f, v, pc) ==
    /\ buckets' = [buckets EXCEPT ![MTidx(w)][MTloc(w).replace][f] = v]
    /\ MTgoto(w, pc, MTloc(w))
    /\ UNCHANGED <<verificationHashes, MTcounters, MTrest>>

\* replace->depth = (int8_t)depth
MTStoreWriteDepth(w) ==
    /\ MTpc(w) = "store_wdepth"
    /\ MTwrite(w, "depth", ToInt8(MTloc(w).depth), "store_wgen")

\* replace->generation = (uint8_t)bound | Table.generation
MTStoreWriteGen(w) ==
    /\ MTpc(w) = "store_wgen"
    /\ MTwrite(w, "generation", BitOr(ToUint8(MTloc(w).bound), generation), "store_wvalue")

\* replace->value = (int16_t)value
MTStoreWriteValue(w) ==
    /\ MTpc(w) = "store_wvalue"
    /\ MTwrite(w, "value", ToInt16(MTloc(w).value), "store_weval")

\* replace->eval = (int16_t)eval
MTStoreWriteEval(w) ==
    /\ MTpc(w) = "store_weval"
    /\ MTwrite(w, "eval", ToInt16(MTloc(w).eval), "store_wmove")

\* replace->move = (uint16_t)move
MTStoreWriteMove(w) ==
    /\ MTpc(w) = "store_wmove"
    /\ MTwrite(w, "move", ToUint16(MTloc(w).move), "store_wsig")

\* replace->hash16 = (uint16_t)hash16
MTStoreWriteSig(w) ==
    /\ MTpc(w) = "store_wsig"
    /\ MTwrite(w, "hash16", ToUint16(Hash16(MTloc(w).hash)), "store_wver")

\* memcpy(&verificationHashes[...], &hashSrc, sizeof(hashSrc))
MTStoreWriteVerification(w) ==
    /\ MTpc(w) = "store_wver"
    /\ verificationHashes' =
           [verificationHashes EXCEPT
               ![VerificationIndex(MTloc(w).hash, hashMask, MTloc(w).replace)] =
                   HashSrcOf[MTloc(w).board]]
    /\ MTgoto(w, "idle", Idle)
    /\ UNCHANGED <<buckets, MTcounters, MTrest>>

\* the positions the workers search: board p under its own hash, the hashes
\* sharing the bucket and the signature
MTPositions == 1..2
MTHashOf(p) == HashOf(2 * p, 2)
MTResults == 1..2
\* the first result is exact, the second, more than 3 plies shallower, a
\* lower bound: over the first it is discarded
MTBoundOf(r) == IF r = 1 THEN BOUND_EXACT ELSE BOUND_LOWER

NextMT ==
    \E w \in Workers :
        \/ \E p \in MTPositions : MTStartGet(w, MTHashOf(p), p)
        \/ MTGetScan(w)
        \/ MTGetVerify(w)
        \/ MTGetReadGen(w)
        \/ MTGetWriteGen(w)
        \/ MTGetReadMove(w)
        \/ MTGetReadValue(w)
        \/ MTGetReadEval(w)
        \/ MTGetReadDepth(w)
        \/ MTGetReadBound(w)
        \/ \E p \in MTPositions : \E r \in MTResults :
              MTStartStore(w, MTHashOf(p), ResultOf(r).move, ResultOf(r).value,
                           ResultOf(r).eval, ResultOf(r).depth, MTBoundOf(r), p)
        \/ MTStoreScan(w)
        \/ MTStoreReadReplaceDepth(w)
        \/ MTStoreReadReplaceGen(w)
        \/ MTStoreReadSlotDepth(w)
        \/ MTStoreReadSlotGen(w)
        \/ MTStoreGuardSig(w)
        \/ MTStoreGuardDepth(w)
        \/ MTStoreWriteDepth(w)
        \/ MTStoreWriteGen(w)
        \/ MTStoreWriteValue(w)
        \/ MTStoreWriteEval(w)
        \/ MTStoreWriteMove(w)
        \/ MTStoreWriteSig(w)
        \/ MTStoreWriteVerification(w)

SpecMT == InitMT /\ [][NextMT]_vars

\* a probe of worker w has returned 1
MTHit(w) == mt.loc[w].op = "got" /\ mt.loc[w].ret = 1

\* C2: under concurrent probes and stores on one bucket, a probe
\* getTTEntry(H, B) that reports a hit returns a move, value, eval, depth and
\* bound that were passed together to one storeTTEntry call made with board B.
C2_HitFromOneStore ==
    \A w \in Workers :
        MTHit(w) =>
            \E c \in mt.calls :
                /\ c.board = mt.loc[w].board
                /\ c.move = mt.loc[w].move
                /\ c.value = mt.loc[w].value
                /\ c.eval = mt.loc[w].eval
                /\ c.depth = mt.loc[w].depth
                /\ c.bound = mt.loc[w].bound

(***************************************************************************)
(* getPKEntry, storePKEntry                                                *)
(***************************************************************************)
\* storePKEntry that leaves an entry of another hash where it is
StorePKEntry_keepsForeign(pkhash, passed, eval) ==
    LET idx   == PKIndex(pkhash)
        call  == [op |-> "storePK", pkhash |-> pkhash, passed |-> passed, eval |-> eval]
        held  == pktable.entries[idx]
    IN  /\ pktable' = [entries |-> IF held = ZeroPKEntry \/ held.pkhash = pkhash
                                   THEN [pktable.entries EXCEPT
                                            ![idx] = [pkhash |-> pkhash, passed |-> passed,
                                                      eval |-> eval]]
                                   ELSE pktable.entries,
                       stored  |-> [pktable.stored EXCEPT ![idx] = call]]
        /\ val' = call
        /\ UNCHANGED <<hashMask, generation, buckets, verificationHashes,
                       passedLookups, verificationFailures, stored, last, mt, written>>

StorePKEntry(pkhash, passed, eval) ==
    LET idx   == PKIndex(pkhash)
        call  == [op |-> "storePK", pkhash |-> pkhash, passed |-> passed, eval |-> eval]
    IN  /\ pktable' = [entries |-> [pktable.entries EXCEPT
                                       ![idx] = [pkhash |-> pkhash, passed |-> passed,
                                                 eval |-> eval]],
                       stored  |-> [pktable.stored EXCEPT ![idx] = call]]
        /\ val' = call
        /\ UNCHANGED <<hashMask, generation, buckets, verificationHashes,
                       passedLookups, verificationFailures, stored, last, mt, written>>

\* the return value of getPKEntry: the entry (with its index) or NULL
getPKEntry(pkhash) ==
    LET pkentry == pktable.entries[PKIndex(pkhash)]
    IN  IF pkentry.pkhash = pkhash
        THEN [null |-> FALSE, index |-> PKIndex(pkhash), entry |-> pkentry]
        ELSE NULL

GetPKEntry(pkhash) ==
    /\ val' = [op |-> "getPK", pkhash |-> pkhash, ret |-> getPKEntry(pkhash)]
    /\ UNCHANGED <<hashMask, generation, buckets, verificationHashes,
                   passedLookups, verificationFailures, stored, last, mt, written,
                   pktable>>

PKPassed == {PassedOf(0), PassedOf(3)}
PKEvals == {-5, 7}

StorePK ==
    \E pkhash \in PKHashes, passed \in PKPassed, eval \in PKEvals :
        StorePKEntry(pkhash, passed, eval)

GetPK == \E pkhash \in PKHashes : GetPKEntry(pkhash)

NextPK ==
    \/ StorePK
    \/ GetPK

SpecPK == Init /\ [][NextPK]_vars

\* the most recent storePKEntry call to the index of the last call's hash
PKLastStore == pktable.stored[PKIndex(val.pkhash)]

\* C11: once the index of H has been written, getPKEntry(H) returns the
\* slot exactly when the most recent store to that index used H, and the
\* slot then holds that store's bitboard and eval; another hash of the same
\* index gets NULL; a store replaces whatever the slot held
C11_PKLastStoreWins ==
    /\ (val.op = "getPK" /\ PKLastStore # NoStore) =>
          /\ (val.ret # NULL) <=> (PKLastStore.pkhash = val.pkhash)
          /\ (val.ret # NULL) =>
                /\ val.ret.index = PKIndex(val.pkhash)
                /\ val.ret.entry.pkhash = val.pkhash
                /\ val.ret.entry.passed = PKLastStore.passed
                /\ val.ret.entry.eval = PKLastStore.eval
    /\ val.op = "storePK" =>
          pktable.entries[PKIndex(val.pkhash)] =
              [pkhash |-> val.pkhash, passed |-> val.passed, eval |-> val.eval]

\* a probe reports absent for a hash whose index holds another hash, while
\* the other index holds an entry too
C11_Witness ==
    /\ val.op = "getPK"
    /\ val.ret = NULL
    /\ PKLastStore # NoStore
    /\ PKLastStore.pkhash # val.pkhash
    /\ PKLastStore.pkhash # MkHash(0, 0)
    /\ \A i \in PKIdxs : pktable.stored[i] # NoStore

(***************************************************************************)
(* Packing: boardToBoardHashSrc on pairs of boards, and the unpacking of   *)
(* its assertions                                                          *)
(***************************************************************************)
\* a board with the b-th piece placement, castling rooks on the files of
\* the bits of white and black, en-passant square ep and side to move turn
PackBoard(b, white, black, ep, turn) ==
    [rawBoard    |-> BoardOf(b).rawBoard,
     castleRooks |-> [k \in ByteIdx |-> IF k = 1 THEN white
                                        ELSE IF k = WordBytes THEN black ELSE 0],
     epSquare    |-> ep,
     turn        |-> turn]

\* no castling rook, the a-rook, both rooks
PackRooks == {0, 1, 129}
\* no en-passant square, one on the third rank, one on the sixth
PackEpSquares == {-1, 20, 44}
PackBoards ==
    {PackBoard(b, white, black, ep, turn) :
        b \in 1..NumPlacements, white \in PackRooks, black \in PackRooks,
        ep \in PackEpSquares, turn \in {WHITE, BLACK}}

\* packedSquares[i] & 0x0F0F0F0F0F0F0F0F
UnpackEven(word) == WordAndNibbles(word)
\* (packedSquares[i] >> 4) & 0x0F0F0F0F0F0F0F0F
UnpackOdd(word) == WordAndNibbles(WordShr4(word))
\* castleRooks[WHITE] | (castleRooks[BLACK] * 0x0100000000000000)
UnpackCastleRooks(hashSrc) ==
    [k \in ByteIdx |-> IF k = 1 THEN hashSrc.castleRooks[WHITE]
                       ELSE IF k = WordBytes THEN hashSrc.castleRooks[BLACK] ELSE 0]

InitPack ==
    /\ InitTable(0)
    /\ mt = NoCall
    /\ pktable = ZeroPKTable
    /\ \E one \in PackBoards, other \in PackBoards :
          val = [op |-> "boards", one |-> one, other |-> other]

\* a caller packs two boards
PackBoards2 ==
    /\ val.op = "boards"
    /\ val' = [op |-> "packed", one |-> val.one, other |-> val.other,
               oneSrc |-> boardToBoardHashSrc(val.one),
               otherSrc |-> boardToBoardHashSrc(val.other)]
    /\ UNCHANGED <<hashMask, generation, buckets, verificationHashes,
                   passedLookups, verificationFailures, stored, last, mt, written,
                   pktable>>

NextPack == PackBoards2

SpecPack == InitPack /\ [][NextPack]_vars

\* C12: unpacking a packed board gives back its eight leading words and its
\* castling field, and boards that differ in those, in the en-passant
\* square or in the side to move have different packed records
C12_PackingLossless ==
    val.op = "packed" =>
       /\ \A i \in 0..3 :
             /\ UnpackEven(val.oneSrc.packedSquares[i]) = val.one.rawBoard[i * 2]
             /\ UnpackOdd(val.oneSrc.packedSquares[i]) = val.one.rawBoard[i * 2 + 1]
       /\ UnpackCastleRooks(val.oneSrc) = val.one.castleRooks
       /\ val.oneSrc.epSquare = val.one.epSquare
       /\ val.oneSrc.turn = val.one.turn
       /\ val.one # val.other => val.oneSrc # val.otherSrc

\* two packed boards that differ only by a pawn push, which changes an odd
\* and an even word: black to move, all four castling rooks, an en-passant
\* square
C12_Witness ==
    /\ val.op = "packed"
    /\ \E i \in 0..3 : val.one.rawBoard[i * 2] # val.other.rawBoard[i * 2]
    /\ \E i \in 0..3 : val.one.rawBoard[i * 2 + 1] # val.other.rawBoard[i * 2 + 1]
    /\ val.one.castleRooks = val.other.castleRooks
    /\ val.one.castleRooks[1] = 129
    /\ val.one.castleRooks[WordBytes] = 129
    /\ val.one.epSquare = val.other.epSquare
    /\ val.one.epSquare = 20
    /\ val.one.turn = val.other.turn
    /\ val.one.turn = BLACK

(***************************************************************************)
(* Effect of a probe on the table                                          *)
(***************************************************************************)
\* the step keeps everything of slot i of bucket idx but its age tag
KeepsButAge(idx, i) ==
    /\ buckets'[idx][i].hash16 = buckets[idx][i].hash16
    /\ buckets'[idx][i].move = buckets[idx][i].move
    /\ buckets'[idx][i].value = buckets[idx][i].value
    /\ buckets'[idx][i].eval = buckets[idx][i].eval
    /\ buckets'[idx][i].depth = buckets[idx][i].depth
    /\ BoundOf(buckets'[idx][i].generation) = BoundOf(buckets[idx][i].generation)

\* C13: getTTEntry changes no signature, move, value, eval, depth or bound
\* bits, no verification record, not hashMask and not Table.generation; on
\* a hit the hit slot's age tag becomes the current generation and no other
\* slot changes; on a miss no slot changes
C13_ProbeFrame ==
    [][last'.op = "get" =>
          /\ hashMask' = hashMask
          /\ generation' = generation
          /\ verificationHashes' = verificationHashes
          /\ \A idx \in Idxs : \A i \in SlotIdx : KeepsButAge(idx, i)
          /\ last'.ret = 1 =>
                \A idx \in Idxs : \A i \in SlotIdx :
                   IF idx = BucketIndex(last'.hash, hashMask) /\ i = last'.out.slot
                   THEN AgeOf(buckets'[idx][i].generation) = AgeOf(generation)
                   ELSE buckets'[idx][i] = buckets[idx][i]
          /\ last'.ret = 0 => buckets' = buckets]_vars

\* a hit right after updateTT: the slot of a lower bound written in an
\* earlier generation carries the new generation
C13_Witness ==
    /\ Hit
    /\ last.after.op = "update"
    /\ generation > 0
    /\ last.out.bound = BOUND_LOWER
    /\ buckets[BucketIndex(last.hash, hashMask)][last.out.slot].generation
          = generation + BOUND_LOWER

(***************************************************************************)
(* The generation byte: stores and probes around the 8-bit wraparound of   *)
(* Table.generation                                                        *)
(***************************************************************************)
StoreLayout ==
    \E r \in Results, bound \in VerBounds :
        StoreTTEntry(HashOf(2, 2), ResultOf(r).move, ResultOf(r).value, ResultOf(r).eval,
                     ResultOf(r).depth, bound, 1)

GetLayout ==
    /\ passedLookups < MaxLookups
    /\ GetTTEntry(HashOf(2, 2), 1)

UpdateLayout ==
    /\ generation >= WrapStart \/ generation < 4 * GenWindow
    /\ UpdateCounted
    /\ UpdateTT

NextLayout ==
    \/ Resize
    \/ ClearTT
    \/ StoreLayout
    \/ GetLayout
    \/ UpdateLayout

SpecLayout == InitRepl /\ [][NextLayout]_vars

\* C14: the low 2 bits of Table.generation are always zero and it changes
\* only by +4 modulo 256 in updateTT; a slot written by storeTTEntry has the
\* stored bound in its bound bits and the current generation as its age tag,
\* a slot refreshed by getTTEntry has the current generation as its age tag,
\* and every written slot keeps the bound of its store
C14_GenerationLayout ==
    [][/\ BitAnd(generation, TT_MASK_BOUND) = 0
       /\ BitAnd(generation', TT_MASK_BOUND) = 0
       /\ generation' # generation =>
             /\ last'.op = "update"
             /\ generation' = (generation + 4) % 256
       /\ last'.op = "update" => generation' = (generation + 4) % 256
       /\ hashMask' # 0 =>
             \A idx \in Idxs : \A i \in SlotIdx :
                /\ written'[idx][i] =>
                      BoundOf(buckets'[idx][i].generation) = stored'[idx][i].bound
                /\ (/\ last'.op = "store"
                    /\ hashMask # 0
                    /\ written'[idx][i]
                    /\ stored'[idx][i] # stored[idx][i] \/ buckets'[idx][i] # buckets[idx][i])
                   => /\ BoundOf(buckets'[idx][i].generation) = last'.bound
                      /\ AgeOf(buckets'[idx][i].generation) = AgeOf(generation)
                /\ (/\ last'.op = "get"
                    /\ last'.ret = 1
                    /\ idx = BucketIndex(last'.hash, hashMask)
                    /\ i = last'.out.slot)
                   => /\ AgeOf(buckets'[idx][i].generation) = AgeOf(generation)
                      /\ BoundOf(buckets'[idx][i].generation) = last'.out.bound]_vars

\* after the wraparound from 252 to 0, a probe has refreshed an exact entry
\* that was written at generation 252
C14_Witness ==
    /\ Hit
    /\ generation = 0
    /\ last.after.op = "update"
    /\ last.out.bound = BOUND_EXACT
    /\ written[BucketIndex(last.hash, hashMask)][last.out.slot]
    /\ buckets[BucketIndex(last.hash, hashMask)][last.out.slot].generation = BOUND_EXACT

(***************************************************************************)
(* Signatures within a bucket: four signatures over three slots, with      *)
(* clearTT and probes                                                      *)
(***************************************************************************)
GetUniq ==
    /\ passedLookups < MaxLookups
    /\ \E hash \in ReplHashes : GetTTEntry(hash, 1)

\* stores of upper bounds for every hash
StoreUniq ==
    \E h \in 1..NumReplHashes :
        StoreTTEntry(HashOf(h, 4), ResultOf(1).move, ResultOf(1).value, ResultOf(1).eval,
                     ReplDepthOf(h), BOUND_UPPER, 1)

NextUniq ==
    \/ Resize
    \/ ClearTT
    \/ StoreUniq
    \/ UpdateRepl
    \/ GetUniq

SpecUniq == InitRepl /\ [][NextUniq]_vars

\* C15: no two written slots of a bucket hold the same signature, no
\* never-written slot of signature 0 sits below a written slot of signature
\* 0, and a probe that reports a miss leaves no written slot of its
\* signature whose verification record is the probed board
C15_SignatureUnique ==
    hashMask # 0 =>
       \A idx \in Idxs :
          /\ \A i \in SlotIdx : \A j \in SlotIdx :
                (i < j /\ written[idx][j]) =>
                   /\ written[idx][i] => buckets[idx][i].hash16 # buckets[idx][j].hash16
                   /\ (~written[idx][i] /\ buckets[idx][i].hash16 = 0)
                         => buckets[idx][j].hash16 # 0
          /\ (Probed /\ last.ret = 0 /\ idx = BucketIndex(last.hash, hashMask)) =>
                \A i \in SlotIdx :
                   ~(/\ written[idx][i]
                     /\ buckets[idx][i].hash16 = Hash16(last.hash)
                     /\ verificationHashes[idx * 3 + i] = HashSrcOf[last.board])

\* a full bucket: three written slots, among them signature 0 above slot 0,
\* after a store has evicted an entry of another signature
C15_Witness ==
    /\ hashMask # 0
    /\ last.op = "store"
    /\ \E idx \in Idxs :
          /\ \A i \in SlotIdx : written[idx][i]
          /\ \E i \in SlotIdx : i > 0 /\ buckets[idx][i].hash16 = 0
          /\ last.over.hash16 # Hash16(last.hash)
          /\ last.over.depth > 0

(***************************************************************************)
(* Mate scores in the other direction: valueFromTT first, then valueToTT   *)
(***************************************************************************)
\* a caller applies valueToTT to what valueFromTT returned
ValueToTTSecond ==
    /\ val.op = "fromTTFirst"
    /\ val' = [op |-> "toTTSecond", value |-> val.value, height |-> val.height,
               from |-> val.from, again |-> valueToTT(val.from, val.height)]
    /\ UNCHANGED <<hashMask, generation, buckets, verificationHashes,
                   passedLookups, verificationFailures, stored, last, mt, written,
                   pktable>>

NextInverse ==
    \/ ValueFromTTFirst
    \/ ValueToTTSecond

SpecInverse == InitValue /\ [][NextInverse]_vars

\* C16 as claimed: valueToTT(valueFromTT(v, h), h) = v for every |v| <= MATE
\* and every height h in 0..128
C16_InverseOtherDirection ==
    (val.op = "toTTSecond" /\ Abs(val.value) <= MATE) => val.again = val.value

\* the score is one that valueToTT can return at the height: inside the
\* thresholds, or at least height beyond one
InImageOfValueToTT(value, height) ==
    \/ Abs(value) < TBWIN_IN_MAX
    \/ Abs(value) >= TBWIN_IN_MAX + height

\* C16 amended: valueToTT(valueFromTT(v, h), h) = v for every |v| <= MATE and
\* every height h in 0..128 with |v| < TBWIN_IN_MAX or |v| >= TBWIN_IN_MAX + h
C16_InverseOnImage ==
    (/\ val.op = "toTTSecond"
     /\ Abs(val.value) <= MATE
     /\ InImageOfValueToTT(val.value, val.height)) => val.again = val.value

\* the smallest winning score valueToTT returns at a height above 0 goes to
\* the threshold and back
C16_Witness ==
    /\ val.op = "toTTSecond"
    /\ val.height > 0
    /\ val.value = TBWIN_IN_MAX + val.height
    /\ val.from = TBWIN_IN_MAX
    /\ val.again = val.value

(***************************************************************************)
(* Depths: exact stores of the depths at both ends of 0..MAX_PLY, each     *)
(* followed by probes                                                      *)
(***************************************************************************)
Depths == {d \in 0..MAX_PLY : d <= DepthMargin \/ d >= MAX_PLY - DepthMargin}

StoreDepth ==
    \E depth \in Depths :
        StoreTTEntry(HashOf(2, 2), ResultOf(1).move, ResultOf(1).value, ResultOf(1).eval,
                     depth, BOUND_EXACT, 1)

GetDepth ==
    /\ passedLookups < MaxLookups
    /\ GetTTEntry(HashOf(2, 2), 1)

NextDepth ==
    \/ Resize
    \/ StoreDepth
    \/ GetDepth

SpecDepth == Init /\ [][NextDepth]_vars

\* C17 as claimed: an exact store of a depth d in 0..MAX_PLY followed by a
\* probe of the same hash and board is a hit that returns depth d
C17_DepthSurvives ==
    [][(/\ last.op = "store"
        /\ last.bound = BOUND_EXACT
        /\ last.depth \in Depths
        /\ last'.op = "get"
        /\ last'.hash = last.hash
        /\ last'.board = last.board)
       => (/\ last'.ret = 1
           /\ last'.out.depth = last.depth)]_vars

(***************************************************************************)
(* Scores through the table: valueToTT, storeTTEntry, getTTEntry,          *)
(* valueFromTT on scores up to VALUE_NONE                                  *)
(***************************************************************************)
\* scores within Margin of 0, of the threshold TBWIN_IN_MAX and of VALUE_NONE
ScoreValues ==
    {v \in (0 - VALUE_NONE)..VALUE_NONE :
        \/ Abs(v) <= Margin
        \/ Abs(Abs(v) - TBWIN_IN_MAX) <= Margin
        \/ Abs(v) >= VALUE_NONE - Margin}

\* the table after initTT(2), a score and a height chosen
InitScore ==
    /\ hashMask = Pow2(KeySize(16, 2)) - 1
    /\ generation = 0
    /\ buckets = ClearedBuckets
    /\ verificationHashes = [j \in VerIdxs |-> ZeroHashSrc]
    /\ passedLookups = 0
    /\ verificationFailures = 0
    /\ stored = [i \in Idxs |-> [j \in SlotIdx |-> NoStore]]
    /\ written = NothingWritten
    /\ last = NoCall
    /\ mt = NoCall
    /\ pktable = ZeroPKTable
    /\ val \in {[op |-> "input", value |-> v, height |-> h] : v \in ScoreValues, h \in Heights}

\* the search stores valueToTT(value, height)
StoreScore ==
    /\ val.op = "input"
    /\ StoreTTEntry(HashOf(2, 2), ResultOf(1).move, valueToTT(val.value, val.height),
                    ResultOf(1).eval, ResultOf(1).depth, BOUND_EXACT, 1)

GetScore ==
    /\ val.op = "input"
    /\ passedLookups < MaxLookups
    /\ GetTTEntry(HashOf(2, 2), 1)

\* the search applies valueFromTT to the value of a hit
ValueFromProbe ==
    /\ val.op = "input"
    /\ Hit
    /\ val' = [op |-> "fromProbe", value |-> val.value, height |-> val.height,
               tt |-> last.out.value, back |-> valueFromTT(last.out.value, val.height)]
    /\ UNCHANGED <<hashMask, generation, buckets, verificationHashes,
                   passedLookups, verificationFailures, stored, last, mt, written,
                   pktable>>

NextScore ==
    \/ StoreScore
    \/ GetScore
    \/ ValueFromProbe

SpecScore == InitScore /\ [][NextScore]_vars

\* C18: valueToTT of a score up to VALUE_NONE at a height up to MAX_PLY fits
\* the signed 16-bit field, a probe returns it as stored, and valueFromTT at
\* the same height gives the score back
C18_ScoreSurvives ==
    /\ last.op = "store" =>
          /\ last.value = valueToTT(val.value, val.height)
          /\ last.value \in -32768..32767
    /\ Hit => last.out.value = valueToTT(val.value, val.height)
    /\ val.op = "fromProbe" =>
          /\ val.tt = valueToTT(val.value, val.height)
          /\ val.back = val.value

\* -VALUE_NONE at height MAX_PLY: stored as -32257 and returned as -32129
C18_Witness ==
    /\ val.op = "fromProbe"
    /\ val.value = 0 - VALUE_NONE
    /\ val.height = MAX_PLY
    /\ val.tt = 0 - VALUE_NONE - MAX_PLY
    /\ val.back = 0 - VALUE_NONE

(***************************************************************************)
(* The verification counters                                               *)
(***************************************************************************)
\* the slots of the bucket of hash that hold its signature
MatchingSlots(hash) ==
    {i \in SlotIdx : buckets[BucketIndex(hash, hashMask)][i].hash16 = Hash16(hash)}
\* the verification record of the lowest of them
FirstMatchRecord(hash) ==
    LET i == CHOOSE i \in MatchingSlots(hash) : \A j \in MatchingSlots(hash) : i <= j
    IN  verificationHashes[BucketIndex(hash, hashMask) * 3 + i]
\* the four packed-square words of the record are all zero
SquaresAllZero(record) == \A k \in 0..3 : \A j \in ByteIdx : record.packedSquares[k][j] = 0

\* C19: a getTTEntry adds 1 to passedLookups when a slot has its signature
\* and 0 otherwise; it adds 1 to verificationFailures exactly when the
\* packed board differs from the record of the first such slot and the
\* record's packed squares are not all zero; no other operation changes a
\* counter, and verificationFailures <= passedLookups
C19_VerificationCounters ==
    [][/\ last'.op = "get" =>
             IF MatchingSlots(last'.hash) = {}
             THEN /\ passedLookups' = passedLookups
                  /\ verificationFailures' = verificationFailures
             ELSE /\ passedLookups' = passedLookups + 1
                  /\ verificationFailures' =
                        verificationFailures +
                           (IF /\ HashSrcOf[last'.board] # FirstMatchRecord(last'.hash)
                               /\ ~SquaresAllZero(FirstMatchRecord(last'.hash))
                            THEN 1 ELSE 0)
       /\ last'.op # "get" =>
             /\ passedLookups' = passedLookups
             /\ verificationFailures' = verificationFailures
       /\ verificationFailures <= passedLookups
       /\ verificationFailures' <= passedLookups']_vars

\* a probe of signature 0 that fails against a record written for another
\* board, after a probe-free history: both counters at 1
C19_Witness ==
    /\ Probed
    /\ last.ret = 0
    /\ Hash16(last.hash) = 0
    /\ passedLookups = 1
    /\ verificationFailures = 1

(***************************************************************************)
(* hashfullTT                                                              *)
(***************************************************************************)
\* the number of buckets sampled
HashfullSample == 1000
\* the summand of the loop for a slot
HashfullUsed(entry) ==
    IF /\ BitAnd(entry.generation, TT_MASK_BOUND) # BOUND_NONE
       /\ BitAnd(entry.generation, TT_MASK_AGE) = generation
    THEN 1 ELSE 0

\* the inner loop over the slots of a bucket
HashfullBucket(bucket) ==
    HashfullUsed(bucket[0]) + HashfullUsed(bucket[1]) + HashfullUsed(bucket[2])

\* the sampled buckets that the model keeps
SampledIdxs == Idxs \cap 0..(HashfullSample - 1)

RECURSIVE HashfullKept(_)
\* the outer loop over the kept buckets of the set idxs
HashfullKept(idxs) ==
    IF idxs = {} THEN 0
    ELSE LET i == CHOOSE i \in idxs : TRUE
         IN  HashfullBucket(buckets[i]) + HashfullKept(idxs \ {i})

\* the outer loop: the sampled buckets that the model does not keep are
\* never written and all as initTT and clearTT leave them, so each of them
\* adds what a zeroed bucket adds
HashfullLoop ==
    HashfullKept(SampledIdxs)
    + (HashfullSample - Cardinality(SampledIdxs)) * HashfullBucket(ZeroBucket)

\* hashfullTT without the division
hashfullTT_count == HashfullLoop

\* the return value of hashfullTT
hashfullTT == HashfullLoop \div TT_BUCKET_NB

HashfullTT ==
    /\ hashMask # 0
    /\ last' = [op |-> "hashfull", ret |-> hashfullTT]
    /\ UNCHANGED <<hashMask, generation, buckets, verificationHashes,
                   passedLookups, verificationFailures, stored, val, mt, written,
                   pktable>>

FullBounds == {BOUND_NONE, BOUND_EXACT}

StoreFull ==
    \E h \in 1..NumReplHashes, bound \in FullBounds :
        StoreTTEntry(HashOf(h, 4), ResultOf(1).move, ResultOf(1).value, ResultOf(1).eval,
                     ReplDepthOf(h), bound, 1)

GetFull ==
    /\ passedLookups < MaxLookups
    /\ GetTTEntry(HashOf(2, 4), 1)

NextFull ==
    \/ Resize
    \/ Update
    \/ StoreFull
    \/ GetFull
    \/ HashfullTT

SpecFull == Init /\ [][NextFull]_vars

\* the slots among the first 1000 buckets whose bound bits are not none and
\* whose age tag is that of Table.generation
CurrentSlots ==
    {s \in SampledIdxs \X SlotIdx :
        /\ BoundOf(buckets[s[1]][s[2]].generation) # BOUND_NONE
        /\ AgeOf(buckets[s[1]][s[2]].generation) = AgeOf(generation)}

\* C20: hashfullTT returns floor(N / 3) for the number N of such slots, a
\* number from 0 to 1000 that equals floor(1000 * N / 3000)
C20_HashfullPerMille ==
    last.op = "hashfull" =>
       /\ last.ret = Cardinality(CurrentSlots) \div 3
       /\ last.ret \in 0..1000
       /\ last.ret = (1000 * Cardinality(CurrentSlots)) \div 3000

\* a bucket whose three slots are of the current generation, one generation
\* after another entry was written: the sample reports 1
C20_Witness ==
    /\ last.op = "hashfull"
    /\ last.ret = 1
    /\ generation > 0
    /\ Cardinality(CurrentSlots) = 3

====
